---- MODULE Spec2Model ----
(***************************************************************************)
(* A model of qcqp_problem.py: the secular-equation solver one_qcqp, the   *)
(* consensus-ADMM heuristic noncvx_admm, the DC splitter split_quadratic   *)
(* and the entry points relax_sdp and qcqp_dccp.                           *)
(*                                                                         *)
(* Problems have one scalar variable (N = 1), so every matrix P is 1x1,    *)
(* eigh(P) is ([P], [[1]]) and a sparse solve is a division;               *)
(* split_quadratic is also modelled on diagonal matrices.                  *)
(*                                                                         *)
(* Numbers are binary floating-point values of an IEEE-754 style format    *)
(* with a MantBits-bit significand, round-to-nearest-even, +-inf and NaN.  *)
(* A finite value v is held as the integer v * Unit.  Python's float is    *)
(* the same format with a 53-bit significand and a wider exponent range.   *)
(***************************************************************************)
EXTENDS Integers, Sequences, FiniteSets, TLC

\* ------------------------------------------------------------------------
\* The floating-point format
\* ------------------------------------------------------------------------

\* significand width in bits
MantBits == 7

\* the largest finite value is just below 2^(MaxExp + 1)
MaxExp == 5

Pow2(k) == 2 ^ k

\* the integer holding 1.0: values below 2.0 lie on the grid 1/Unit
Unit == Pow2(MantBits - 1)

MaxFin == Pow2(MaxExp + MantBits) - Pow2(MaxExp)

INF == MaxFin + 1

NINF == 0 - INF

NaN == INF + 1

\* np.inf as the initial bestf, None as the initial bestx
None == NaN + 1

IsNaN(a) == a = NaN

IsInf(a) == a = INF \/ a = NINF

IsFinite(a) == a >= 0 - MaxFin /\ a <= MaxFin

Abs(n) == IF n < 0 THEN 0 - n ELSE n

Sgn(n) == IF n < 0 THEN 0 - 1 ELSE IF n > 0 THEN 1 ELSE 0

\* every finite value of the format
Floats == {n \in (0 - MaxFin)..MaxFin :
             \E j \in 0..MaxExp : Abs(n) < Pow2(MantBits + j) /\ n % Pow2(j) = 0}

\* the float for the integer k
F(k) == k * Unit

\* n/d (n >= 0, d > 0) rounded to the nearest integer, ties to even
RNE(n, d) ==
    LET q == n \div d
        r == n % d
    IN  IF 2 * r < d THEN q
        ELSE IF 2 * r > d THEN q + 1
        ELSE IF q % 2 = 0 THEN q ELSE q + 1

\* the distance between neighbouring floats around n/d (n >= 0, d > 0)
Spacing(n, d) ==
    LET cand == {j \in 0..(MaxExp + 2) : n >= d * Pow2(MantBits + j)}
    IN  IF cand = {} THEN 1
        ELSE Pow2((CHOOSE j \in cand : \A k \in cand : k <= j) + 1)

\* the exact rational n/d (d > 0) rounded to the format
Round(n, d) ==
    CHOOSE v \in {IF r > MaxFin THEN Sgn(n) * INF ELSE Sgn(n) * r :
                    r \in {sp * RNE(Abs(n), d * sp) :
                             sp \in {Spacing(Abs(n), d)}}} : TRUE

\* NegV, AddV, MulV and DivV are the operations on values; FNeg, FAdd, FMul
\* and FDiv evaluate each argument expression once and apply them.
NegV(a) == IF IsNaN(a) THEN NaN ELSE 0 - a

FNeg(a) == CHOOSE r \in {NegV(va) : va \in {a}} : TRUE

AddV(a, b) ==
    IF IsNaN(a) \/ IsNaN(b) THEN NaN
    ELSE IF IsInf(a) THEN (IF IsInf(b) /\ a # b THEN NaN ELSE a)
    ELSE IF IsInf(b) THEN b
    ELSE Round(a + b, 1)

FAdd(a, b) == CHOOSE r \in {AddV(va, vb) : va \in {a}, vb \in {b}} : TRUE

FSub(a, b) == FAdd(a, FNeg(b))

MulV(a, b) ==
    IF IsNaN(a) \/ IsNaN(b) THEN NaN
    ELSE IF IsInf(a) \/ IsInf(b)
         THEN (IF a = 0 \/ b = 0 THEN NaN ELSE Sgn(a) * Sgn(b) * INF)
    ELSE Round(a * b, Unit)

FMul(a, b) == CHOOSE r \in {MulV(va, vb) : va \in {a}, vb \in {b}} : TRUE

\* numpy's division: x/0 is +-inf, 0/0 is NaN (a zero divisor here is +0)
DivV(a, b) ==
    IF IsNaN(a) \/ IsNaN(b) THEN NaN
    ELSE IF IsInf(a) THEN (IF IsInf(b) THEN NaN
                           ELSE IF b < 0 THEN 0 - a ELSE a)
    ELSE IF IsInf(b) THEN 0
    ELSE IF b = 0 THEN (IF a = 0 THEN NaN ELSE Sgn(a) * INF)
    ELSE Round(Sgn(b) * a * Unit, Abs(b))

FDiv(a, b) == CHOOSE r \in {DivV(va, vb) : va \in {a}, vb \in {b}} : TRUE

\* comparisons: any comparison with NaN is False
FLt(a, b) == \E va \in {a}, vb \in {b} : ~IsNaN(va) /\ ~IsNaN(vb) /\ va < vb

FLe(a, b) == \E va \in {a}, vb \in {b} : ~IsNaN(va) /\ ~IsNaN(vb) /\ va <= vb

FGt(a, b) == FLt(b, a)

FGe(a, b) == FLe(b, a)

\* Python's builtin max(a, b) and min(a, b): b only if it compares beyond a
PyMax(a, b) == IF FGt(b, a) THEN b ELSE a

PyMin(a, b) == IF FLt(b, a) THEN b ELSE a

PyAbs(a) == IF IsNaN(a) THEN NaN ELSE Abs(a)

\* ------------------------------------------------------------------------
\* State
\* ------------------------------------------------------------------------

VARIABLES
    \* one_qcqp: position, arguments (z, A, b, c, equality_cons, tol), locals
    \* s, e and the returned x; iters is the parity of the number of passes
    \* through the bisection loop, bracket the (s, e) the loop starts with
    qpc, qz, A, b, c, equality_cons, tol, s, e, x, iters, bracket,
    \* noncvx_admm: position, arguments, locals
    pc, NAME, P0, Q0, R0, PP, QQ, RR, rel,
    num_samples, num_iters, viollim, eps,
    rho, bestx, bestf, sample, z, xs, ys, zlhs, t, i,
    \* the outcome of the call: how it ended and the value it returned
    outcome, ret,
    \* history: the feasible candidates evaluated so far, how the previous
    \* trial ended, the number of inner iterations run
    cands, lastEnd, inner,
    \* relax_sdp / qcqp_dccp / split_quadratic: the external solver's answer
    \* and the matrices split
    method, status, solver_value, X, splitP, splitOut

qvars == <<qpc, qz, A, b, c, equality_cons, tol, s, e, x, iters, bracket>>

avars == <<pc, NAME, P0, Q0, R0, PP, QQ, RR, rel, num_samples, num_iters,
           viollim, eps, rho, bestx, bestf, sample, z, xs, ys, zlhs, t, i,
           outcome, ret, cands, lastEnd, inner>>

evars == <<method, status, solver_value, X, splitP, splitOut>>

vars == <<qvars, avars, evars>>

\* ------------------------------------------------------------------------
\* one_qcqp(z, A, b, c, equality_cons, tol)
\* ------------------------------------------------------------------------

\* the default of the parameter tol, scaled to the format: four grid steps at
\* 1.0, as 1e-6 is many grid steps of a 53-bit significand at 1.0
tol_default == Unit \div 16

\* xhat for the dual value nu, with lmb = A and Q = [[1]] for a 1x1 matrix
xhat(nu) ==
    FNeg(FDiv(FSub(FMul(nu, b), FMul(F(2), qz)),
              FMul(F(2), FAdd(F(1), FMul(nu, A)))))

phi(nu) ==
    CHOOSE r \in {FAdd(FAdd(FMul(A, FMul(xh, xh)), FMul(b, xh)), c) :
                    xh \in {xhat(nu)}} : TRUE

\* z.T*A*z + z.T*b + c <= 0
zFeasible == FLe(FAdd(FAdd(FMul(FMul(qz, A), qz), FMul(qz, b)), c), 0)

\* if not equality_cons and z is feasible: return z
Q_FastPath ==
    /\ qpc = "entry"
    /\ ~equality_cons /\ zFeasible
    /\ x' = qz
    /\ qpc' = "ret"
    /\ UNCHANGED <<qz, A, b, c, equality_cons, tol, s, e, iters, bracket>>
    /\ UNCHANGED <<avars, evars>>

\* s = -inf, e = inf; for l in lmb: s = max(s, -1/l) if l > 0,
\* e = min(e, -1/l) if l < 0
Q_Seed ==
    /\ qpc = "entry"
    /\ ~(~equality_cons /\ zFeasible)
    /\ s' = IF FGt(A, 0) THEN PyMax(NINF, FDiv(F(0 - 1), A)) ELSE NINF
    /\ e' = IF FLt(A, 0) THEN PyMin(INF, FDiv(F(0 - 1), A)) ELSE INF
    /\ qpc' = "sinit"
    /\ UNCHANGED <<qz, A, b, c, equality_cons, tol, x, iters, bracket>>
    /\ UNCHANGED <<avars, evars>>

\* if s == -inf: s = -1.
Q_SInit ==
    /\ qpc = "sinit"
    /\ IF s = NINF THEN s' = F(0 - 1) /\ qpc' = "sloop"
                   ELSE s' = s /\ qpc' = "einit"
    /\ UNCHANGED <<qz, A, b, c, equality_cons, tol, e, x, iters, bracket>>
    /\ UNCHANGED <<avars, evars>>

\* while phi(s) <= 0: s *= 2.
Q_SLoop ==
    /\ qpc = "sloop"
    /\ IF FLe(phi(s), 0) THEN s' = FMul(s, F(2)) /\ qpc' = "sloop"
                         ELSE s' = s /\ qpc' = "einit"
    /\ UNCHANGED <<qz, A, b, c, equality_cons, tol, e, x, iters, bracket>>
    /\ UNCHANGED <<avars, evars>>

\* if e == inf: e = 1.
Q_EInit ==
    /\ qpc = "einit"
    /\ IF e = INF THEN e' = F(1) /\ qpc' = "eloop" /\ bracket' = bracket
                  ELSE e' = e /\ qpc' = "bisect" /\ bracket' = <<s, e>>
    /\ UNCHANGED <<qz, A, b, c, equality_cons, tol, s, x, iters>>
    /\ UNCHANGED <<avars, evars>>

\* while phi(e) >= 0: e *= 2.
Q_ELoop ==
    /\ qpc = "eloop"
    /\ IF FGe(phi(e), 0)
       THEN e' = FMul(e, F(2)) /\ qpc' = "eloop" /\ bracket' = bracket
       ELSE e' = e /\ qpc' = "bisect" /\ bracket' = <<s, e>>
    /\ UNCHANGED <<qz, A, b, c, equality_cons, tol, s, x, iters>>
    /\ UNCHANGED <<avars, evars>>

\* m = (s+e)/2.
Mid(lo, hi) == FDiv(FAdd(lo, hi), F(2))

\* the new (s, e, left the loop by break) after one pass of the loop body
BisectStep(lo, hi) ==
    CHOOSE r \in {IF FGt(p, 0) THEN <<m, hi, FALSE>>
                   ELSE IF FLt(p, 0) THEN <<lo, m, FALSE>>
                   ELSE <<m, m, TRUE>> :
                     <<m, p>> \in {<<mm, phi(mm)>> : mm \in {Mid(lo, hi)}}} : TRUE

\* while e-s > tol: one pass of the body, or the exit of the loop
Q_Bisect ==
    /\ qpc = "bisect"
    /\ IF FGt(FSub(e, s), tol)
       THEN \E r \in {BisectStep(s, e)} :
                /\ s' = r[1]
                /\ e' = r[2]
                /\ qpc' = IF r[3] THEN "final" ELSE "bisect"
                /\ iters' = 1 - iters
       ELSE /\ qpc' = "final"
            /\ UNCHANGED <<s, e, iters>>
    /\ UNCHANGED <<qz, A, b, c, equality_cons, tol, x, bracket>>
    /\ UNCHANGED <<avars, evars>>

\* nu = (s+e)/2.; xhat = ...; x = Q*xhat; return x
Q_Final ==
    /\ qpc = "final"
    /\ x' = xhat(Mid(s, e))
    /\ qpc' = "ret"
    /\ UNCHANGED <<qz, A, b, c, equality_cons, tol, s, e, iters, bracket>>
    /\ UNCHANGED <<avars, evars>>

\* ------------------------------------------------------------------------
\* noncvx_admm(self, num_samples, num_iters, viollim, eps)
\* ------------------------------------------------------------------------

\* M = len(PP)
M == Len(PP)

\* x^T P x + x^T Q + R for 1x1 P: (za.T*P*za + za.T*Q + R)[0, 0]
QuadForm(v, P, Q, R) == FAdd(FAdd(FMul(FMul(v, P), v), FMul(v, Q)), R)

\* np.sum over the columns k..Len(col), added to acc from left to right
RECURSIVE SumFrom(_, _, _)
SumFrom(col, k, acc) ==
    IF k > Len(col) THEN acc ELSE SumFrom(col, k + 1, FAdd(acc, col[k]))

\* lmb_min = np.min(eigh(P0)); rho = 2*(1-lmb_min)/M if lmb_min < 0 else 1./M;
\* rho *= 5
rho_init(p0, m) ==
    FMul(IF FLt(p0, 0) THEN FDiv(FMul(F(2), FSub(F(1), p0)), F(m))
                       ELSE FDiv(F(1), F(m)),
         F(5))

\* zlhs = 2*P0 + rho*M*sp.identity(N)
zlhs_of(r) == FAdd(FMul(F(2), P0), FMul(r, F(M)))

\* rhs = np.sum(rho*xs-ys, 1) - Q0; z = spsolve(zlhs, rhs)
z_update ==
    FDiv(FSub(SumFrom([k \in 1..M |-> FSub(FMul(rho, xs[k]), ys[k])], 1, 0), Q0),
         zlhs)

\* zz = z + (1/rho)*ys[:, i]
zz_of(k) == FAdd(z, FMul(FDiv(F(1), rho), ys[k]))

\* za = (np.sum(xs, 1)+z)/(M+1)
za_of == FDiv(FAdd(SumFrom(xs, 1, 0), z), F(M + 1))

\* the violation of constraint k at v: abs(viol) for an equality, max(0, viol)
\* otherwise
viol_of(v, k) ==
    IF rel[k] THEN PyAbs(QuadForm(v, PP[k], QQ[k], RR[k]))
              ELSE PyMax(0, QuadForm(v, PP[k], QQ[k], RR[k]))

\* maxviol = 0; for i in range(M): maxviol = max(maxviol, viol)
RECURSIVE maxviol_from(_, _, _)
maxviol_from(v, k, acc) ==
    IF k > M THEN acc ELSE maxviol_from(v, k + 1, PyMax(acc, viol_of(v, k)))

maxviol_of(v) == maxviol_from(v, 1, 0)

\* objt = (za.T*P0*za + za.T*Q0 + R0)[0, 0]
objt_of(v) == QuadForm(v, P0, Q0, R0)

\* if self.objective.NAME == "maximize": P0 = -P0; Q0 = -Q0; R0 = -R0
Signed(name, v) == IF name = "maximize" THEN FNeg(v) ELSE v

\* the objectives and the constraints (P, Q, R, equality) of the problems
\* solved, each a quadratic in one variable
ObjPool ==
    {<<F(1), 0, 0>>, <<F(1), F(0 - 2), F(1)>>, <<F(0 - 1), F(1), 0>>,
     <<0, F(1), F(1)>>}

ConPool ==
    {<<F(1), 0, F(0 - 1), TRUE>>,
     <<F(1), 0, F(0 - 3), FALSE>>,
     <<0, F(1), F(0 - 1), FALSE>>,
     <<F(1), 0, F(1), TRUE>>,
     <<Unit \div 16, 0, F(0 - 2), TRUE>>}

ConLists == {<<k>> : k \in ConPool} \cup {<<k, l>> : k \in ConPool, l \in ConPool}

\* the values np.random.randn may draw for z
RandZ == {F(0 - 2), 0, F(1)}

\* the trials and the inner iterations a call may ask for
MaxSamples == 2

MaxIters == 2

\* the values of the parameters viollim and eps
ViolLims == {F(2)}

Epss == {Unit \div 4}

\* lines 140-178: the coefficients, their sign, rho, bestx = None, bestf = inf
Admm_Call ==
    /\ pc = "idle" /\ qpc = "idle" /\ method = "none"
    /\ NAME' \in {"minimize", "maximize"}
    /\ \E o \in ObjPool :
          /\ P0' = Signed(NAME', o[1])
          /\ Q0' = Signed(NAME', o[2])
          /\ R0' = Signed(NAME', o[3])
    /\ \E cl \in ConLists :
          /\ PP' = [k \in 1..Len(cl) |-> cl[k][1]]
          /\ QQ' = [k \in 1..Len(cl) |-> cl[k][2]]
          /\ RR' = [k \in 1..Len(cl) |-> cl[k][3]]
          /\ rel' = [k \in 1..Len(cl) |-> cl[k][4]]
    /\ num_samples' \in 0..MaxSamples
    /\ num_iters' \in 0..MaxIters
    /\ viollim' \in ViolLims
    /\ eps' \in Epss
    /\ rho' = rho_init(P0', Len(PP'))
    /\ bestx' = None
    /\ bestf' = INF
    /\ sample' = 0
    /\ method' = "noncvx-admm"
    /\ pc' = "trial"
    /\ UNCHANGED <<z, xs, ys, zlhs, t, i, outcome, ret, cands, lastEnd, inner>>
    /\ UNCHANGED <<qvars, status, solver_value, X, splitP, splitOut>>

\* a variant that keeps the local copies of the previous trial
xs_kept(zv) == IF Len(xs) = M THEN xs ELSE [k \in 1..M |-> zv]

\* xs = randn(N, M); for i in range(M): xs[:, i] = z
xs_init(zv) == [k \in 1..M |-> zv]

\* ys = np.asmatrix(np.zeros((N, M)))
ys_init == [k \in 1..M |-> 0]

\* for sample in range(num_samples): z = randn; xs[:, i] = z; ys = zeros;
\* zlhs = 2*P0 + rho*M*I
Admm_Trial ==
    /\ pc = "trial"
    /\ sample < num_samples
    /\ z' \in RandZ
    /\ xs' = xs_init(z')
    /\ ys' = ys_init
    /\ zlhs' = zlhs_of(rho)
    /\ t' = 0
    /\ pc' = "iter"
    /\ UNCHANGED <<NAME, P0, Q0, R0, PP, QQ, RR, rel, num_samples, num_iters,
                   viollim, eps, rho, bestx, bestf, sample, i, outcome, ret,
                   cands, lastEnd, inner>>
    /\ UNCHANGED <<qvars, evars>>

\* for t in range(num_iters): rhs = ...; z = spsolve(zlhs, rhs)
Admm_ZUpdate ==
    /\ pc = "iter"
    /\ t < num_iters
    /\ z' = z_update
    /\ i' = 1
    /\ pc' = "xcall"
    /\ UNCHANGED <<NAME, P0, Q0, R0, PP, QQ, RR, rel, num_samples, num_iters,
                   viollim, eps, rho, bestx, bestf, sample, xs, ys, zlhs, t,
                   outcome, ret, cands, lastEnd, inner>>
    /\ UNCHANGED <<qvars, evars>>

\* the inner loop ran num_iters times: the next trial
Admm_TrialEnd ==
    /\ pc = "iter"
    /\ t >= num_iters
    /\ sample' = sample + 1
    /\ lastEnd' = "completed"
    /\ pc' = "trial"
    /\ UNCHANGED <<NAME, P0, Q0, R0, PP, QQ, RR, rel, num_samples, num_iters,
                   viollim, eps, rho, bestx, bestf, z, xs, ys, zlhs, t, i,
                   outcome, ret, cands, inner>>
    /\ UNCHANGED <<qvars, evars>>

\* zz = z + (1/rho)*ys[:, i]; one_qcqp(zz, PP[i], QQ[i], RR[i], rel[i])
Admm_XCall ==
    /\ pc = "xcall"
    /\ qz' = zz_of(i)
    /\ A' = PP[i] /\ b' = QQ[i] /\ c' = RR[i]
    /\ equality_cons' = rel[i]
    /\ tol' = tol_default
    /\ qpc' = "entry"
    /\ pc' = "xwait"
    /\ UNCHANGED <<s, e, x, iters, bracket>>
    /\ UNCHANGED <<NAME, P0, Q0, R0, PP, QQ, RR, rel, num_samples, num_iters,
                   viollim, eps, rho, bestx, bestf, sample, z, xs, ys, zlhs, t,
                   i, outcome, ret, cands, lastEnd, inner>>
    /\ UNCHANGED evars

\* xs[:, i] = one_qcqp(...); ys[:, i] += rho*(z - xs[:, i])
Admm_XReturn ==
    /\ pc = "xwait"
    /\ qpc = "ret"
    /\ xs' = [xs EXCEPT ![i] = x]
    /\ ys' = [ys EXCEPT ![i] = FAdd(ys[i], FMul(rho, FSub(z, x)))]
    /\ i' = i + 1
    /\ pc' = IF i = M THEN "eval" ELSE "xcall"
    /\ qpc' = "idle"
    /\ UNCHANGED <<qz, A, b, c, equality_cons, tol, s, e, x, iters, bracket>>
    /\ UNCHANGED <<NAME, P0, Q0, R0, PP, QQ, RR, rel, num_samples, num_iters,
                   viollim, eps, rho, bestx, bestf, sample, z, zlhs, t,
                   outcome, ret, cands, lastEnd, inner>>
    /\ UNCHANGED evars

\* lines 217-219: if maxviol > viollim: rho *= 2; break
Diverged(mv) == FGt(mv, viollim)

\* a variant that starts rho over instead of growing it
rho_restarted(r) == rho_init(P0, M)

\* rho *= 2
rho_grown(r) == FMul(r, F(2))

\* a variant that accepts a better point without the feasibility test
Improves_NoFeasibility(mv, f) == FGt(bestf, f)

\* a variant that accepts every feasible point, better or not
Improves_AnyFeasible(mv, f) == FLt(mv, eps)

\* lines 221-223: if maxviol < eps and bestf > objt
Improves(mv, f) == FLt(mv, eps) /\ FGt(bestf, f)

\* lines 202-225: za, maxviol, objt; the divergence test; the update of the
\* best point found
Admm_Eval ==
    /\ pc = "eval"
    /\ \E r \in {<<v, maxviol_of(v), objt_of(v)>> : v \in {za_of}} :
         LET za == r[1]
             maxviol == r[2]
             objt == r[3]
         IN  IF Diverged(maxviol)
             THEN /\ rho' = rho_grown(rho)
                  /\ sample' = sample + 1
                  /\ lastEnd' = "diverged"
                  /\ pc' = "trial"
                  /\ UNCHANGED <<bestx, bestf, t, cands>>
             ELSE /\ bestf' = IF Improves(maxviol, objt) THEN objt ELSE bestf
                  /\ bestx' = IF Improves(maxviol, objt) THEN za ELSE bestx
                  /\ cands' = IF FLt(maxviol, eps)
                              THEN cands \cup {<<objt, za>>} ELSE cands
                  /\ t' = t + 1
                  /\ pc' = "iter"
                  /\ UNCHANGED <<rho, sample, lastEnd>>
    /\ inner' = inner + 1
    /\ UNCHANGED <<NAME, P0, Q0, R0, PP, QQ, RR, rel, num_samples, num_iters,
                   viollim, eps, z, xs, ys, zlhs, i, outcome, ret>>
    /\ UNCHANGED <<qvars, evars>>

\* assign_vars(xs, vals): vals[ind:ind+size] raises TypeError when vals is None
assign_vars(vals) == IF vals = None THEN "TypeError" ELSE "returned"

\* lines 229-233: assign_vars(self.variables(), bestx); return bestf
Admm_Finish ==
    /\ pc = "trial"
    /\ sample >= num_samples
    /\ outcome' = assign_vars(bestx)
    /\ ret' = IF outcome' = "returned" THEN bestf ELSE ret
    /\ pc' = "done"
    /\ UNCHANGED <<NAME, P0, Q0, R0, PP, QQ, RR, rel, num_samples, num_iters,
                   viollim, eps, rho, bestx, bestf, sample, z, xs, ys, zlhs, t,
                   i, cands, lastEnd, inner>>
    /\ UNCHANGED <<qvars, evars>>

\* noncvx_admm is not running
AdmmIdle ==
    /\ pc = "idle" /\ NAME = "minimize"
    /\ P0 = 0 /\ Q0 = 0 /\ R0 = 0
    /\ PP = <<>> /\ QQ = <<>> /\ RR = <<>> /\ rel = <<>>
    /\ num_samples = 0 /\ num_iters = 0 /\ viollim = 0 /\ eps = 0
    /\ rho = 0 /\ bestx = 0 /\ bestf = 0
    /\ sample = 0 /\ z = 0 /\ xs = <<>> /\ ys = <<>> /\ zlhs = 0
    /\ t = 0 /\ i = 0
    /\ outcome = "none" /\ ret = 0
    /\ cands = {} /\ lastEnd = "none" /\ inner = 0

\* no other entry point is running
EntryIdle ==
    /\ method = "none" /\ status = "none" /\ solver_value = 0 /\ X = None
    /\ splitP = <<>> /\ splitOut = <<>>

Init ==
    /\ qpc = "idle"
    /\ qz = 0 /\ A = 0 /\ b = 0 /\ c = 0
    /\ equality_cons = FALSE
    /\ tol = tol_default
    /\ s = 0 /\ e = 0 /\ x = 0 /\ iters = 0 /\ bracket = <<0, 0>>
    /\ AdmmIdle /\ EntryIdle

\* ------------------------------------------------------------------------
\* Direct calls of one_qcqp
\* ------------------------------------------------------------------------

\* coefficients and points of the inputs are the integers -MaxCoef..MaxCoef
MaxCoef == 3

Coefs == {F(k) : k \in (0 - MaxCoef)..MaxCoef}

InitQ == Init

\* a caller's one_qcqp(z, A, b, c, equality_cons) with the default tol
Q_Call ==
    /\ qpc = "idle"
    /\ pc = "idle"
    /\ qz' \in Coefs /\ A' \in Coefs /\ b' \in Coefs /\ c' \in Coefs
    /\ equality_cons' \in BOOLEAN
    /\ qpc' = "entry"
    /\ UNCHANGED <<tol, s, e, x, iters, bracket>>
    /\ UNCHANGED <<avars, evars>>

NextQ ==
    \/ Q_Call
    \/ Q_FastPath
    \/ Q_Seed
    \/ Q_SInit
    \/ Q_SLoop
    \/ Q_EInit
    \/ Q_ELoop
    \/ Q_Bisect
    \/ Q_Final

SpecQ == InitQ /\ [][NextQ]_vars

FairSpecQ == SpecQ /\ WF_vars(NextQ)

\* ------------------------------------------------------------------------
\* split_quadratic, qcqp_dccp, solve_SDP_relaxation and relax_sdp
\* ------------------------------------------------------------------------

\* A diagonal n x n matrix is the sequence of its diagonal entries; its
\* eigenvalues are these entries.
Zeros(n) == [k \in 1..n |-> 0]

\* P.nnz
nnz(P) == Cardinality({k \in 1..Len(P) : P[k] # 0})

\* np.min(LA.eigh(P.todense())[0])
lmb_min_of(P) == CHOOSE v \in {P[k] : k \in 1..Len(P)} : \A k \in 1..Len(P) : v <= P[k]

\* a variant that shifts by -lmb_min only
Shift_NoMargin(P) == [k \in 1..Len(P) |-> FNeg(lmb_min_of(P))]

\* (1-lmb_min)*sp.identity(n)
Shift(P) == [k \in 1..Len(P) |-> FSub(F(1), lmb_min_of(P))]

\* split_quadratic(P): (Pconvex, Pcorrection)
split_quadratic(P) ==
    IF nnz(P) = 0 THEN <<Zeros(Len(P)), Zeros(Len(P))>>
    ELSE IF FLt(lmb_min_of(P), 0)
         THEN <<[k \in 1..Len(P) |-> FAdd(P[k], Shift(P)[k])], Shift(P)>>
    ELSE <<P, Zeros(Len(P))>>

\* the diagonal matrices split: 1x1 and 2x2 with integer entries
DiagPool ==
    {<<u>> : u \in Coefs} \cup {<<u, v>> : u \in Coefs, v \in Coefs}

\* a call split_quadratic(P)
Split_Call ==
    /\ pc = "idle" /\ qpc = "idle" /\ method = "none"
    /\ splitP' \in DiagPool
    /\ splitOut' = split_quadratic(splitP')
    /\ method' = "split_quadratic"
    /\ pc' = "done"
    /\ UNCHANGED <<status, solver_value, X>>
    /\ UNCHANGED <<NAME, P0, Q0, R0, PP, QQ, RR, rel, num_samples, num_iters,
                   viollim, eps, rho, bestx, bestf, sample, z, xs, ys, zlhs, t,
                   i, outcome, ret, cands, lastEnd, inner>>
    /\ UNCHANGED qvars

\* the values the external solvers may report
SolverValues == {F(0 - 2), 0, F(1), NINF, INF}

\* qcqp_dccp, lines 247-302: `import dccp` raises ImportError without the
\* package; P0 is negated for "maximize" and split; the solver's result is
\* negated back
Dccp_Call ==
    /\ pc = "idle" /\ qpc = "idle" /\ method = "none"
    /\ NAME' \in {"minimize", "maximize"}
    /\ \E o \in ObjPool :
          /\ P0' = Signed(NAME', o[1])
          /\ Q0' = Signed(NAME', o[2])
          /\ R0' = Signed(NAME', o[3])
    /\ splitP' = <<P0'>>
    /\ splitOut' = split_quadratic(splitP')
    /\ method' = "qcqp-dccp"
    /\ \E installed \in BOOLEAN :
          IF installed
          THEN /\ solver_value' \in SolverValues
               /\ X' \in RandZ
               /\ status' = "dccp"
               /\ ret' = Signed(NAME', solver_value')
               /\ outcome' = assign_vars(X')
          ELSE /\ outcome' = "ImportError"
               /\ UNCHANGED <<solver_value, X, status, ret>>
    /\ pc' = "done"
    /\ UNCHANGED <<PP, QQ, RR, rel, num_samples, num_iters, viollim, eps, rho,
                   bestx, bestf, sample, z, xs, ys, zlhs, t, i, cands, lastEnd,
                   inner>>
    /\ UNCHANGED qvars

\* the statuses of the relaxation problem
Statuses == {"optimal", "optimal_inaccurate", "infeasible", "unbounded"}

\* solve_SDP_relaxation, lines 71-78: (None, value) unless the status is
\* OPTIMAL or OPTIMAL_INACCURATE, (X.value, value) otherwise
solve_SDP_relaxation(st, point, value) ==
    IF st \notin {"optimal", "optimal_inaccurate"} THEN <<None, value>>
    ELSE <<point, value>>

\* relax_sdp, lines 132-138: X[:, -1] raises TypeError when X is None
relax_sdp(r) ==
    IF r[1] = None THEN <<"TypeError", 0>> ELSE <<assign_vars(r[1]), r[2]>>

RelaxSdp_Call ==
    /\ pc = "idle" /\ qpc = "idle" /\ method = "none"
    /\ status' \in Statuses
    /\ solver_value' \in SolverValues
    /\ \E point \in RandZ :
         LET r == solve_SDP_relaxation(status', point, solver_value')
         IN  /\ X' = r[1]
             /\ outcome' = relax_sdp(r)[1]
             /\ ret' = relax_sdp(r)[2]
    /\ method' = "relax-SDP"
    /\ pc' = "done"
    /\ UNCHANGED <<splitP, splitOut>>
    /\ UNCHANGED <<NAME, P0, Q0, R0, PP, QQ, RR, rel, num_samples, num_iters,
                   viollim, eps, rho, bestx, bestf, sample, z, xs, ys, zlhs, t,
                   i, cands, lastEnd, inner>>
    /\ UNCHANGED qvars

\* ------------------------------------------------------------------------
\* The program: the three registered solve methods and split_quadratic
\* ------------------------------------------------------------------------

Next ==
    \/ Admm_Call
    \/ Admm_Trial
    \/ Admm_ZUpdate
    \/ Admm_TrialEnd
    \/ Admm_XCall
    \/ Q_FastPath
    \/ Q_Seed
    \/ Q_SInit
    \/ Q_SLoop
    \/ Q_EInit
    \/ Q_ELoop
    \/ Q_Bisect
    \/ Q_Final
    \/ Admm_XReturn
    \/ Admm_Eval
    \/ Admm_Finish
    \/ Split_Call
    \/ Dccp_Call
    \/ RelaxSdp_Call

Spec == Init /\ [][Next]_vars

FairSpec == Spec /\ WF_vars(Next)

\* ------------------------------------------------------------------------
\* Properties
\* ------------------------------------------------------------------------

InAdmm == method = "noncvx-admm"

\* the averaged point of the inner iteration being evaluated, its largest
\* violation and its objective
za == za_of

maxviol == maxviol_of(za_of)

objt == objt_of(za_of)

\* C1: the best point starts as (None, inf); (bestx, bestf) changes only in
\* an inner iteration whose za has maxviol < eps and an objective strictly
\* below bestf, to that point and objective; bestf never increases.
C1_BestFoundMonotone ==
    [][IF pc = "idle"
       THEN InAdmm' => bestx' = None /\ bestf' = INF
       ELSE /\ (bestx' # bestx \/ bestf' # bestf)
                 => /\ pc = "eval"
                    /\ FLt(maxviol, eps)
                    /\ FLt(objt, bestf)
                    /\ bestf' = objt
                    /\ bestx' = za
            /\ FLe(bestf', bestf)]_vars

\* a best point that improved on an earlier feasible candidate
C1_Witness == InAdmm /\ bestx # None /\ \E k \in cands : FLt(bestf, k[1])

\* C2: with no feasible averaged point in any trial, noncvx_admm completes
\* normally and reports objective inf and no point.
C2_NoPointIsNormal ==
    (InAdmm /\ pc = "done" /\ cands = {})
        => outcome = "returned" /\ ret = INF /\ bestx = None

\* C3: for a "maximize" objective the value returned by noncvx_admm and by
\* qcqp_dccp is the negation of the minimised value: the caller's sense.
C3_MaximizeNegatedBack ==
    (pc = "done" /\ outcome = "returned" /\ NAME = "maximize"
        /\ method \in {"noncvx-admm", "qcqp-dccp"})
        => ret = FNeg(IF InAdmm THEN bestf ELSE solver_value)

\* C4: when the SDP solver's status is neither optimal nor
\* optimal-inaccurate, the relaxation yields no point with the reported
\* value, and relax_sdp returns that value without raising.
C4_RelaxationNotFatal ==
    (method = "relax-SDP" /\ status \notin {"optimal", "optimal_inaccurate"})
        => X = None /\ outcome = "returned" /\ ret = solver_value

\* C5: a call of noncvx_admm always eventually completes, after at most
\* num_samples * num_iters inner iterations.
C5_AdmmCompletes ==
    /\ [](InAdmm => inner <= num_samples * num_iters)
    /\ (InAdmm ~> pc = "done")

\* C6: the value returned by noncvx_admm is the least objective among the
\* feasible candidates evaluated, and the point assigned back is a candidate
\* with that objective.
C6_ReturnsMinimum ==
    (InAdmm /\ outcome = "returned")
        => /\ <<ret, bestx>> \in cands
           /\ \A k \in cands : ~FLt(k[1], ret)

\* a call that returned after evaluating feasible candidates of different
\* objectives
C6_Witness ==
    InAdmm /\ outcome = "returned" /\ \E k \in cands : FGt(k[1], ret)

IsPSD(P) == \A k \in 1..Len(P) : FGe(P[k], 0)

\* C7: split_quadratic(P) = (Pconvex, Pcorrection) has Pconvex - Pcorrection
\* = P elementwise and both parts PSD; a zero matrix gives two zero
\* matrices, lmb_min >= 0 gives (P, 0), otherwise the parts are
\* P + (1-lmb_min)I and (1-lmb_min)I.
C7_SplitQuadratic ==
    method \in {"split_quadratic", "qcqp-dccp"} =>
        LET P == splitP
            Pconvex == splitOut[1]
            Pcorrection == splitOut[2]
            n == Len(P)
            lmb == lmb_min_of(P)
        IN  /\ Len(Pconvex) = n /\ Len(Pcorrection) = n
            /\ \A k \in 1..n : FSub(Pconvex[k], Pcorrection[k]) = P[k]
            /\ IsPSD(Pconvex) /\ IsPSD(Pcorrection)
            /\ (\A k \in 1..n : P[k] = 0)
                  => Pconvex = Zeros(n) /\ Pcorrection = Zeros(n)
            /\ lmb >= 0 => Pconvex = P /\ Pcorrection = Zeros(n)
            /\ lmb < 0 =>
                  \A k \in 1..n : /\ Pcorrection[k] = F(1) - lmb
                                  /\ Pconvex[k] = P[k] + F(1) - lmb

\* P = [[-1]] gives Pconvex = [[1]], Pcorrection = [[2]]
C7_Witness ==
    /\ method = "split_quadratic"
    /\ splitP = <<F(0 - 1)>>
    /\ splitOut = <<<<F(1)>>, <<F(2)>>>>

\* C8: an inner iteration with maxviol > viollim doubles rho and ends the
\* trial without touching the best point; rho changes in no other way, never
\* decreases, and every trial builds zlhs from the rho then current.
C8_RhoGrowth ==
    [][pc # "idle" =>
        /\ (pc = "eval" /\ FGt(maxviol, viollim))
              => /\ rho' = FMul(rho, F(2))
                 /\ pc' = "trial" /\ sample' = sample + 1
                 /\ bestx' = bestx /\ bestf' = bestf
        /\ rho' # rho => (pc = "eval" /\ FGt(maxviol, viollim))
        /\ FGe(rho', rho)
        /\ (pc = "trial" /\ pc' = "iter")
              => zlhs' = FAdd(FMul(F(2), P0), FMul(rho, F(M)))]_vars

\* a trial started after a diverged one, with the doubled rho
C8_Witness ==
    /\ InAdmm /\ pc = "iter" /\ t = 0 /\ lastEnd = "diverged"
    /\ rho = FMul(rho_init(P0, M), F(2))
    /\ zlhs = FAdd(FMul(F(2), P0), FMul(rho, F(M)))

\* phi is defined and non-increasing over the floats from lo to hi
RECURSIVE NonIncreasing(_, _, _)
NonIncreasing(lo, hi, prev) ==
    IF lo > hi THEN TRUE
    ELSE LET p == phi(lo)
         IN  /\ ~IsNaN(p)
             /\ prev = None \/ FGe(prev, p)
             /\ NonIncreasing(lo + Spacing(IF lo < 0 THEN 0 - lo - 1 ELSE lo, 1),
                              hi, p)

Monotone ==
    /\ IsFinite(bracket[1]) /\ IsFinite(bracket[2])
    /\ NonIncreasing(bracket[1], bracket[2], None)

\* C9: when the fast path is not taken and phi is non-increasing on the
\* bracket, every pass of the bisection loop moves s or e to the midpoint
\* by the sign of phi there (both, leaving the loop, when phi is 0); at the
\* loop head s <= e and phi(s) >= 0 >= phi(e); the loop is left only with
\* e - s <= tol, and nu = (s+e)/2 then lies in the initial bracket.
C9_Bisection ==
    [][qpc = "bisect"
        => \/ /\ FLe(s, e)
              /\ FGe(phi(s), 0) /\ FLe(phi(e), 0)
              /\ LET m == Mid(s, e)
                 IN  IF qpc' = "bisect"
                     THEN \/ FGt(phi(m), 0) /\ s' = m /\ e' = e
                          \/ FLt(phi(m), 0) /\ s' = s /\ e' = m
                     ELSE \/ phi(m) = 0 /\ s' = m /\ e' = m
                          \/ FLe(FSub(e, s), tol) /\ s' = s /\ e' = e
              /\ qpc' = "final"
                    => /\ FLe(FSub(e', s'), tol)
                       /\ FLe(bracket[1], Mid(s', e'))
                       /\ FLe(Mid(s', e'), bracket[2])
           \/ ~Monotone]_vars

\* C10: a trial starts from a fresh draw z with every xs[i] = z and every
\* ys[i] = 0, however the previous trial ended; bestx, bestf and rho are
\* what it keeps.
C10_TrialStartsFresh ==
    [][(pc = "trial" /\ pc' = "iter")
        => /\ z' \in RandZ
           /\ xs' = [k \in 1..M |-> z']
           /\ ys' = [k \in 1..M |-> 0]
           /\ t' = 0
           /\ bestx' = bestx /\ bestf' = bestf /\ rho' = rho]_vars

\* a second trial started after a first one ran its inner iterations
C10_Witness ==
    /\ InAdmm /\ pc = "iter" /\ t = 0 /\ sample = 1 /\ inner > 0
    /\ \A k \in 1..M : xs[k] = z /\ ys[k] = 0

====
